---- MODULE Spec2Model ----
(***************************************************************************)
(* Model of app2.py, the Streamlit "AI-Powered Study Buddy" page.          *)
(*                                                                         *)
(* The page is a script that the framework runs from top to bottom on      *)
(* every user interaction.  The state that survives between two runs is    *)
(* st.session_state (the slots the script reads and writes) and the state  *)
(* of the keyed widgets.  Every action below is one user interaction       *)
(* together with the script run(s) it causes.  The only place where a run  *)
(* is split in two is the blocking call model.generate_content: the press  *)
(* runs the script up to the call, ModelReturns / ModelRaises run the      *)
(* rest of it.                                                             *)
(*                                                                         *)
(* Text is kept run-length encoded (a sequence of runs [c, n]: character c *)
(* repeated n times, adjacent runs of different characters), so that       *)
(* len(), slicing, strip() and concatenation are computed on texts of      *)
(* 50,000 characters and more.  An f-string with one substitution point is *)
(* the record [prefix, body] (output slots) or [prefix, payload, suffix]   *)
(* (prompts) of its literal part(s) and the substituted text.              *)
(***************************************************************************)
EXTENDS Integers, Sequences, FiniteSets, TLC

\* ------------------------------------------------------------------ bounds
\* Number of action-button presses explored in one session.
MaxPresses == 2
\* Number of other interactions (typing, upload, clear, edit) explored.
MaxEdits == 3

\* ----------------------------------------------------------------- strings
\* app2.py:181
MAX_CHARS_FOR_GEMINI == 50000

Whitespace == {" ", "\n"}

Run(c, n) == [c |-> c, n |-> n]

\* len(text)
RECURSIVE TextLen(_)
TextLen(t) == IF t = <<>> THEN 0 ELSE Head(t).n + TextLen(Tail(t))

\* a + b on texts
Concat(a, b) ==
    IF a = <<>> THEN b
    ELSE IF b = <<>> THEN a
    ELSE IF a[Len(a)].c = b[1].c
         THEN SubSeq(a, 1, Len(a) - 1)
              \o <<Run(b[1].c, a[Len(a)].n + b[1].n)>> \o Tail(b)
         ELSE a \o b

\* text[:k]
RECURSIVE Slice(_, _)
Slice(t, k) ==
    IF k <= 0 \/ t = <<>> THEN <<>>
    ELSE IF Head(t).n <= k
         THEN <<Head(t)>> \o Slice(Tail(t), k - Head(t).n)
         ELSE <<Run(Head(t).c, k)>>

\* text.strip(): leading and trailing whitespace runs removed
RECURSIVE LStrip(_)
LStrip(t) ==
    IF t = <<>> THEN <<>>
    ELSE IF Head(t).c \in Whitespace THEN LStrip(Tail(t)) ELSE t

RECURSIVE RStrip(_)
RStrip(t) ==
    IF t = <<>> THEN <<>>
    ELSE IF t[Len(t)].c \in Whitespace THEN RStrip(SubSeq(t, 1, Len(t) - 1)) ELSE t

Strip(t) == RStrip(LStrip(t))

\* the character at position i (1-based) of a text; "" past its end
RECURSIVE CharAt(_, _)
CharAt(t, i) ==
    IF t = <<>> THEN ""
    ELSE IF i <= Head(t).n THEN Head(t).c ELSE CharAt(Tail(t), i - Head(t).n)

\* f"{prefix}{body}"
FStr(prefix, body) == [prefix |-> prefix, body |-> body]
EmptyOut == FStr("", <<>>)
\* Python truthiness of a string: it is not empty
Truthy(out) == out.prefix # "" \/ out.body # <<>>

\* ------------------------------------------------------------ input values
Empty == <<>>
Blank == <<Run(" ", 1)>>
Concept == <<Run("p", 1)>>
\* exactly MAX_CHARS_FOR_GEMINI characters, the last one different
ExactNotes == <<Run("a", MAX_CHARS_FOR_GEMINI - 1), Run("b", 1)>>
\* one character more
OverNotes == <<Run("a", MAX_CHARS_FOR_GEMINI - 1), Run("b", 1), Run("c", 1)>>

ShortTexts == {Empty, Blank, Concept}
NotesTexts == {Empty, Blank, ExactNotes, OverNotes}

\* what the model can answer, what an exception can say, what a user can
\* type into the copy field
Responses == {<<Run("T", 1)>>}
Errors == {<<Run("q", 1)>>}
CopyEdits == {FStr("", <<Run("x", 1)>>)}

\* uploaded documents: the pages' texts, or a file pypdf cannot parse
PdfFile(name, corrupt, pages) == [name |-> name, corrupt |-> corrupt, pages |-> pages]
NoFile == PdfFile("None", FALSE, <<>>)
CorruptPdf == PdfFile("corrupt.pdf", TRUE, <<>>)
ScannedPdf == PdfFile("scanned.pdf", FALSE, <<Empty>>)
ExactPdf == PdfFile("exact.pdf", FALSE, <<<<Run("a", MAX_CHARS_FOR_GEMINI - 1)>>>>)
OverPdf == PdfFile("over.pdf", FALSE, <<ExactNotes>>)
Files == {CorruptPdf, ScannedPdf, ExactPdf, OverPdf}
\* str(e) of the exception pypdf raises on a file it cannot parse
PdfError == <<Run("e", 1)>>

Features == {"explain", "summarize", "quiz"}
Buttons == {"Explain Concept", "Summarize Content", "Generate Quiz", "Generate Flashcards"}

\* ------------------------------------------------------------------- state
VARIABLES
    session_state,  \* st.session_state: the seven slots of the script
    widgets,        \* the state of the keyed widgets, by key
    screen,         \* what the last completed run rendered
    pending,        \* the requests model.generate_content is blocked on
    n_presses,      \* action-button presses so far
    n_calls,        \* calls of model.generate_content so far
    n_edits,        \* other interactions so far
    last            \* the latest interaction: what was pressed, what the
                    \* handler read, the slots before it, how it ended

vars == <<session_state, widgets, screen, pending, n_presses, n_calls, n_edits, last>>

InputKeys == {"concept_area", "notes_area", "quiz_topic"}
CopyKeys == {"explain_copy_area", "summarize_copy_area", "quiz_copy_area"}
WidgetKeys == InputKeys \cup CopyKeys \cup {"pdf_uploader"}

InputKey(f) ==
    CASE f = "explain" -> "concept_area"
      [] f = "summarize" -> "notes_area"
      [] f = "quiz" -> "quiz_topic"
CopyKey(f) ==
    CASE f = "explain" -> "explain_copy_area"
      [] f = "summarize" -> "summarize_copy_area"
      [] f = "quiz" -> "quiz_copy_area"
InputSlot(f) ==
    CASE f = "explain" -> "explain_input"
      [] f = "summarize" -> "summarize_input"
      [] f = "quiz" -> "quiz_topic_input"
OutputSlot(f) ==
    CASE f = "explain" -> "explain_output"
      [] f = "summarize" -> "summarize_output"
      [] f = "quiz" -> "quiz_flashcard_output"
FeatureOf(button) ==
    CASE button = "Explain Concept" -> "explain"
      [] button = "Summarize Content" -> "summarize"
      [] button \in {"Generate Quiz", "Generate Flashcards"} -> "quiz"

\* ----------------------------------------------------------------- widgets
\* A widget that is not on the page (its state was dropped or never made).
Absent == [present |-> FALSE, default |-> <<>>, value |-> <<>>]

\* st.text_area / st.text_input (value=..., key=...): the element's identity
\* is computed from its key and its parameters, `value` among them.  With the
\* same `value` as on the last run the widget keeps what the user typed; with
\* another `value` it is a new widget that shows `value`.
Widget(w, value) ==
    IF w.present /\ w.default = value
    THEN w
    ELSE [present |-> TRUE, default |-> value, value |-> value]

View(shown, copy_area, full_output) ==
    [shown |-> shown, copy_area |-> copy_area, full_output |-> full_output]
\* st.info("AI output will appear here.")
Placeholder == View(FALSE, EmptyOut, EmptyOut)

\* app2.py:50-70
display_ai_output(output_text, copy_widget) ==
    IF Truthy(output_text)
    THEN LET w == Widget(copy_widget, output_text)
         IN [widget |-> w, view |-> View(TRUE, w.value, output_text)]
    ELSE [widget |-> Absent, view |-> Placeholder]

\* One widget of the page as the script renders it from the slots.
RenderKey(k, w, ss) ==
    CASE k = "concept_area" -> Widget(w[k], ss.explain_input)
      [] k = "notes_area" -> Widget(w[k], ss.summarize_input)
      [] k = "quiz_topic" -> Widget(w[k], ss.quiz_topic_input)
      [] k = "pdf_uploader" -> w[k]
      [] k = "explain_copy_area" -> display_ai_output(ss.explain_output, w[k]).widget
      [] k = "summarize_copy_area" -> display_ai_output(ss.summarize_output, w[k]).widget
      [] k = "quiz_copy_area" -> display_ai_output(ss.quiz_flashcard_output, w[k]).widget

RenderKeys(keys, w, ss) ==
    [k \in WidgetKeys |-> IF k \in keys THEN RenderKey(k, w, ss) ELSE w[k]]

\* The three input sections: every run renders them from the slots as they
\* are before the pressed button's handler runs (a handler writes the slots
\* of its own feature only, after that feature's input widget was rendered).
RenderInputs(w, ss) == RenderKeys(InputKeys, w, ss)

\* The three display_ai_output calls (lines 115, 205, 267) and the messages
\* of the run: what the page shows when the run is over.
Msg(level, text, detail, length) ==
    [level |-> level, text |-> text, detail |-> detail, length |-> length]

Render(w, ss, messages) ==
    [messages |-> messages,
     explain |-> display_ai_output(ss.explain_output, w.explain_copy_area).view,
     summarize |-> display_ai_output(ss.summarize_output, w.summarize_copy_area).view,
     quiz |-> display_ai_output(ss.quiz_flashcard_output, w.quiz_copy_area).view]

\* The end of a run: the outputs are displayed, the page is complete.
Finish(ss, w, messages) ==
    /\ session_state' = ss
    /\ widgets' = RenderKeys(CopyKeys, w, ss)
    /\ screen' = Render(w, ss, messages)

Ghost(op, target, input, file, outcome, response) ==
    [op |-> op, target |-> target, input |-> input, file |-> file,
     before |-> session_state, calls |-> n_calls, sent |-> {},
     outcome |-> outcome, response |-> response]

\* ---------------------------------------------------------------- handlers
\* A handler's part before the call: the slots it leaves, the messages it
\* shows and the prompts it hands to model.generate_content (none or one).
Handled(ss, messages, requests) ==
    [ss |-> ss, messages |-> messages, requests |-> requests]

Prompt(prefix, payload, suffix) ==
    [prefix |-> prefix, payload |-> payload, suffix |-> suffix]

\* app2.py:98
ExplainPrompt(concept_input) ==
    Prompt("Explain the following concept in simple terms for a student, focusing on clarity and easy understanding: ",
           concept_input, "")

\* app2.py:232
QuizPrompt(quiz_topic_input) ==
    Prompt("Generate a short quiz (3-4 questions) with answers on the topic of '",
           quiz_topic_input,
           "'. Include various question types like multiple-choice, true/false, and short answer. Clearly label questions and answers.")

\* app2.py:248-250
FlashcardsPrompt(quiz_topic_input) ==
    Prompt("Generate 3-4 flashcards for studying '",
           quiz_topic_input,
           "'. For each flashcard, provide a clear question/term on the \"front\" and its answer/definition on the \"back\". Format each flashcard clearly, for example:\n                **Flashcard 1 - Front:** [Question]\n                **Flashcard 1 - Back:** [Answer]")

\* app2.py:193
SummarizePrompt(content_to_summarize) ==
    Prompt("Summarize the following study notes concisely, highlighting the main points and key takeaways. Aim for a summary that captures the essence of the notes: ",
           content_to_summarize, "")

\* ExplainConcept, had it tested concept_input.strip()
ExplainConcept_Strips(ss, concept_input) ==
    IF Strip(concept_input) # <<>>
    THEN Handled([ss EXCEPT !.explain_input = concept_input], <<>>,
                 {ExplainPrompt(concept_input)})
    ELSE Handled([ss EXCEPT !.explain_output = EmptyOut],
                 <<Msg("warning", "Please enter a concept to explain.", <<>>, 0)>>, {})

\* app2.py:94-98, 105-107
ExplainConcept(ss, concept_input) ==
    IF concept_input # <<>>
    THEN Handled([ss EXCEPT !.explain_input = concept_input], <<>>,
                 {ExplainPrompt(concept_input)})
    ELSE Handled([ss EXCEPT !.explain_output = EmptyOut],
                 <<Msg("warning", "Please enter a concept to explain.", <<>>, 0)>>, {})

\* app2.py:228-232, 239-241
GenerateQuiz(ss, quiz_topic_input) ==
    IF quiz_topic_input # <<>>
    THEN Handled([ss EXCEPT !.quiz_topic_input = quiz_topic_input], <<>>,
                 {QuizPrompt(quiz_topic_input)})
    ELSE Handled([ss EXCEPT !.quiz_flashcard_output = EmptyOut],
                 <<Msg("warning", "Please enter a topic for the quiz.", <<>>, 0)>>, {})

\* app2.py:244-250, 257-259
GenerateFlashcards(ss, quiz_topic_input) ==
    IF quiz_topic_input # <<>>
    THEN Handled([ss EXCEPT !.quiz_topic_input = quiz_topic_input], <<>>,
                 {FlashcardsPrompt(quiz_topic_input)})
    ELSE Handled([ss EXCEPT !.quiz_flashcard_output = EmptyOut],
                 <<Msg("warning", "Please enter a topic for flashcards.", <<>>, 0)>>, {})

\* app2.py:30-35: the pages' texts, each followed by a newline; raises on a
\* file that is no PDF
RECURSIVE PagesText(_)
PagesText(pages) ==
    IF pages = <<>> THEN <<>>
    ELSE Concat(Concat(Head(pages), <<Run("\n", 1)>>), PagesText(Tail(pages)))

extract_text_from_pdf(uploaded_file) ==
    IF uploaded_file.corrupt
    THEN [raised |-> TRUE, value |-> PdfError]
    ELSE [raised |-> FALSE, value |-> PagesText(uploaded_file.pages)]

Source(content, ss, messages) == [content |-> content, ss |-> ss, messages |-> messages]

\* FromPdf, had it tested `not content_to_summarize` without strip()
FromPdf_NoStrip(ss, uploaded_file) ==
    LET processing == <<Msg("write", "Processing PDF...", <<>>, 0)>>
        r == extract_text_from_pdf(uploaded_file)
        saved == [ss EXCEPT !.uploaded_file = uploaded_file]
    IN IF r.raised
       THEN Source(<<>>,
                   [ss EXCEPT !.summarize_output = FStr("Error reading PDF: ", r.value)],
                   Append(processing, Msg("error", "Error reading PDF: ", r.value, 0)))
       ELSE IF r.value = <<>>
            THEN Source(<<>>,
                        [saved EXCEPT !.summarize_output =
                            FStr("Error: Could not extract readable text from PDF.", <<>>)],
                        Append(processing,
                               Msg("warning", "Could not extract readable text from the PDF. Please try pasting notes directly.", <<>>, 0)))
            ELSE Source(r.value, saved, processing)

\* app2.py:162-174: the uploaded document as the content
FromPdf(ss, uploaded_file) ==
    LET processing == <<Msg("write", "Processing PDF...", <<>>, 0)>>
        r == extract_text_from_pdf(uploaded_file)
        saved == [ss EXCEPT !.uploaded_file = uploaded_file]
    IN IF r.raised
       THEN Source(<<>>,
                   [ss EXCEPT !.summarize_output = FStr("Error reading PDF: ", r.value)],
                   Append(processing, Msg("error", "Error reading PDF: ", r.value, 0)))
       ELSE IF Strip(r.value) = <<>>
            THEN Source(<<>>,
                        [saved EXCEPT !.summarize_output =
                            FStr("Error: Could not extract readable text from PDF.", <<>>)],
                        Append(processing,
                               Msg("warning", "Could not extract readable text from the PDF. Please try pasting notes directly.", <<>>, 0)))
            ELSE Source(r.value, saved, processing)

\* SummarizeSource, had it fallen back to the notes when the document gives
\* no content
SummarizeSource_FallsBack(ss, uploaded_file, notes_input) ==
    LET pdf == FromPdf(ss, uploaded_file)
    IN IF uploaded_file # NoFile /\ pdf.content # <<>>
       THEN pdf
       ELSE IF notes_input # <<>>
            THEN Source(notes_input, [ss EXCEPT !.summarize_input = notes_input], <<>>)
            ELSE Source(<<>>, ss, <<>>)

\* app2.py:161-178: where the content comes from
SummarizeSource(ss, uploaded_file, notes_input) ==
    IF uploaded_file # NoFile
    THEN FromPdf(ss, uploaded_file)
    ELSE IF notes_input # <<>>
         THEN Source(notes_input, [ss EXCEPT !.summarize_input = notes_input], <<>>)
         ELSE Source(<<>>, ss, <<>>)

\* Truncate, had it compared with >= instead of >
Truncate_AtLimit(content_to_summarize) ==
    LET original_length == TextLen(content_to_summarize)
    IN IF original_length >= MAX_CHARS_FOR_GEMINI
       THEN [content |-> Slice(content_to_summarize, MAX_CHARS_FOR_GEMINI),
             messages |-> <<Msg("warning", "Your input is very long. Summarizing the first characters to fit AI limits.",
                                <<>>, original_length)>>]
       ELSE [content |-> content_to_summarize, messages |-> <<>>]

\* app2.py:181-190: the content cut to MAX_CHARS_FOR_GEMINI, with the warning
Truncate(content_to_summarize) ==
    LET original_length == TextLen(content_to_summarize)
    IN IF original_length > MAX_CHARS_FOR_GEMINI
       THEN [content |-> Slice(content_to_summarize, MAX_CHARS_FOR_GEMINI),
             messages |-> <<Msg("warning", "Your input is very long. Summarizing the first characters to fit AI limits.",
                                <<>>, original_length)>>]
       ELSE [content |-> content_to_summarize, messages |-> <<>>]

\* SummarizeSend, had its else branch only warned
SummarizeSend_KeepsOutput(src) ==
    IF src.content # <<>>
    THEN LET t == Truncate(src.content)
         IN Handled(src.ss, src.messages \o t.messages, {SummarizePrompt(t.content)})
    ELSE Handled(src.ss,
                 Append(src.messages,
                        Msg("warning", "Please paste notes or upload a PDF document to summarize.", <<>>, 0)),
                 {})

\* app2.py:180-193, 201-203
SummarizeSend(src) ==
    IF src.content # <<>>
    THEN LET t == Truncate(src.content)
         IN Handled(src.ss, src.messages \o t.messages, {SummarizePrompt(t.content)})
    ELSE Handled([src.ss EXCEPT !.summarize_output = EmptyOut],
                 Append(src.messages,
                        Msg("warning", "Please paste notes or upload a PDF document to summarize.", <<>>, 0)),
                 {})

\* app2.py:160-203
SummarizeContent(ss, uploaded_file, notes_input) ==
    SummarizeSend(SummarizeSource(ss, uploaded_file, notes_input))

\* The handler of a button, on the inputs the run read from the widgets.
Handler(button, ss, w) ==
    CASE button = "Explain Concept" -> ExplainConcept(ss, w.concept_area.value)
      [] button = "Summarize Content" ->
            SummarizeContent(ss, w.pdf_uploader, w.notes_area.value)
      [] button = "Generate Quiz" -> GenerateQuiz(ss, w.quiz_topic.value)
      [] button = "Generate Flashcards" -> GenerateFlashcards(ss, w.quiz_topic.value)

\* What the except clause shows: st.error(f"Error generating ...: {e}")
ErrorLabel(button) ==
    CASE button = "Explain Concept" -> "Error generating explanation: "
      [] button = "Summarize Content" -> "Error generating summary: "
      [] button = "Generate Quiz" -> "Error generating quiz: "
      [] button = "Generate Flashcards" -> "Error generating flashcards: "

\* app2.py:101, 196, 235, 253: response.text is saved as the output
OnResponse(button, ss, text) ==
    [ss EXCEPT ![OutputSlot(FeatureOf(button))] = FStr("", text)]

\* OnException, had the except clause only shown the error
OnException_ShowsOnly(button, ss, e) ==
    [ss |-> ss, messages |-> <<Msg("error", ErrorLabel(button), e, 0)>>]

\* app2.py:102-104, 197-200, 236-238, 254-256: the exception is caught, shown
\* and saved as the output
OnException(button, ss, e) ==
    [ss |-> [ss EXCEPT ![OutputSlot(FeatureOf(button))] = FStr("Error: ", e)],
     messages |-> <<Msg("error", ErrorLabel(button), e, 0)>>
                  \o (IF button = "Summarize Content"
                      THEN <<Msg("exception", "", e, 0)>> ELSE <<>>)]

\* ------------------------------------------------------------------- clear
\* clear_explain, had it left the output in place
clear_explain_KeepsOutput(ss) ==
    [ss EXCEPT !.explain_input = <<>>]

\* app2.py:111-112
clear_explain(ss) ==
    [ss EXCEPT !.explain_input = <<>>, !.explain_output = EmptyOut]

\* app2.py:155-157
clear_summarize(ss) ==
    [ss EXCEPT !.summarize_input = <<>>, !.summarize_output = EmptyOut,
               !.uploaded_file = NoFile]

\* app2.py:263-264
clear_quiz(ss) ==
    [ss EXCEPT !.quiz_topic_input = <<>>, !.quiz_flashcard_output = EmptyOut]

Cleared(f, ss) ==
    CASE f = "explain" -> clear_explain(ss)
      [] f = "summarize" -> clear_summarize(ss)
      [] f = "quiz" -> clear_quiz(ss)

\* The widgets the script has rendered when it reaches the Clear button of a
\* feature (lines 110, 154, 262): st.experimental_rerun() ends the run there.
RenderedBeforeClear(f) ==
    CASE f = "explain" -> {"concept_area"}
      [] f = "summarize" -> {"concept_area", "explain_copy_area", "notes_area", "pdf_uploader"}
      [] f = "quiz" -> WidgetKeys \ {"quiz_copy_area"}

\* The state of the widgets a run did not render.  A Streamlit release that
\* has st.experimental_rerun either drops it at the end of the interrupted
\* run or keeps it, depending on the release: `cull` is that choice.
AfterInterruptedRun(w, rendered, cull) ==
    [k \in WidgetKeys |->
        IF k \in rendered \/ ~cull THEN w[k]
        ELSE IF k = "pdf_uploader" THEN NoFile ELSE Absent]

\* ------------------------------------------------------------------- Init
\* app2.py:78-81, 123-128, 213-216 and the first run of the script
\* (GEMINI_API_KEY is set and the model object exists: without them st.stop()
\* at lines 18-27 ends every run before the first widget)
InitialSessionState ==
    [explain_input |-> <<>>, explain_output |-> EmptyOut,
     summarize_input |-> <<>>, summarize_output |-> EmptyOut,
     uploaded_file |-> NoFile,
     quiz_topic_input |-> <<>>, quiz_flashcard_output |-> EmptyOut]

NoWidgets == [k \in WidgetKeys |-> IF k = "pdf_uploader" THEN NoFile ELSE Absent]

Init ==
    /\ session_state = InitialSessionState
    /\ widgets = RenderKeys(CopyKeys, RenderInputs(NoWidgets, InitialSessionState),
                            InitialSessionState)
    /\ screen = Render(NoWidgets, InitialSessionState, <<>>)
    /\ pending = {}
    /\ n_presses = 0
    /\ n_calls = 0
    /\ n_edits = 0
    /\ last = [op |-> "init", target |-> "", input |-> <<>>, file |-> NoFile,
               before |-> InitialSessionState, calls |-> 0,
               sent |-> {}, outcome |-> "none", response |-> <<>>]

\* ---------------------------------------------------------------- actions
Idle == pending = {}

\* An action button is pressed: the script runs with that button set.  With
\* a request to make, the run blocks in model.generate_content.
Press(button) ==
    /\ Idle
    /\ n_presses < MaxPresses
    /\ n_presses' = n_presses + 1
    /\ UNCHANGED n_edits
    /\ LET w == RenderInputs(widgets, session_state)
           h == Handler(button, session_state, w)
           g == Ghost("press", button, w[InputKey(FeatureOf(button))].value,
                      w.pdf_uploader, "rejected", <<>>)
       IN IF h.requests # {}
          THEN /\ session_state' = h.ss
               /\ widgets' = w
               /\ UNCHANGED screen
               /\ pending' = {[button |-> button, prompt |-> p, messages |-> h.messages] :
                                p \in h.requests}
               /\ n_calls' = n_calls + Cardinality(h.requests)
               /\ last' = [g EXCEPT !.outcome = "requesting", !.sent = h.requests]
          ELSE /\ Finish(h.ss, w, h.messages)
               /\ UNCHANGED <<pending, n_calls>>
               /\ last' = g

\* model.generate_content returns and response.text is `text`.
ModelReturns(text) ==
    \E req \in pending :
        /\ Finish(OnResponse(req.button, session_state, text), widgets, req.messages)
        /\ pending' = pending \ {req}
        /\ last' = [last EXCEPT !.outcome = "ok", !.response = text]
        /\ UNCHANGED <<n_presses, n_calls, n_edits>>

\* ModelRaises, had the handler sent the request again
ModelRaises_Retries(e) ==
    /\ pending # {}
    /\ n_calls' = n_calls + 1
    /\ last' = [last EXCEPT !.outcome = "error", !.response = e]
    /\ UNCHANGED <<session_state, widgets, screen, pending, n_presses, n_edits>>

\* model.generate_content (or response.text) raises an exception saying `e`.
ModelRaises(e) ==
    \E req \in pending :
        LET x == OnException(req.button, session_state, e)
        IN /\ Finish(x.ss, widgets, req.messages \o x.messages)
           /\ pending' = pending \ {req}
           /\ last' = [last EXCEPT !.outcome = "error", !.response = e]
           /\ UNCHANGED <<n_presses, n_calls, n_edits>>

\* A run of the script with no button set.
Rerun(ss, w) == Finish(ss, RenderInputs(w, ss), <<>>)

Edit ==
    /\ Idle
    /\ n_edits < MaxEdits
    /\ n_edits' = n_edits + 1
    /\ UNCHANGED <<pending, n_presses, n_calls>>

\* The user changes the text of a feature's input widget.
TypeText(f, text) ==
    /\ Edit
    /\ widgets[InputKey(f)].value # text
    /\ Rerun(session_state, [widgets EXCEPT ![InputKey(f)].value = text])
    /\ last' = Ghost("type", f, text, widgets.pdf_uploader, "none", <<>>)

\* The user puts a file into the uploader, or takes it out (NoFile).
Upload(file) ==
    /\ Edit
    /\ widgets.pdf_uploader # file
    /\ Rerun(session_state, [widgets EXCEPT !.pdf_uploader = file])
    /\ last' = Ghost("upload", "summarize", <<>>, file, "none", <<>>)

\* The user changes the text of the "Copy to Clipboard:" text area of a
\* feature whose output is displayed (line 59: the area is not disabled).
EditCopy(f, out) ==
    /\ Edit
    /\ widgets[CopyKey(f)].present
    /\ widgets[CopyKey(f)].value # out
    /\ Rerun(session_state, [widgets EXCEPT ![CopyKey(f)].value = out])
    /\ last' = Ghost("edit", f, out.body, widgets.pdf_uploader, "none", <<>>)

\* "Clear" of a feature: the run reaches the button, empties the slots and
\* reruns the script from the top.
Clear(f, cull) ==
    /\ Edit
    /\ LET rendered == RenderKeys(RenderedBeforeClear(f), widgets, session_state)
       IN Rerun(Cleared(f, session_state),
                AfterInterruptedRun(rendered, RenderedBeforeClear(f), cull))
    /\ last' = Ghost("clear", f, widgets[InputKey(f)].value, widgets.pdf_uploader,
                     "none", <<>>)

Next ==
    \/ \E button \in Buttons : Press(button)
    \/ \E text \in Responses : ModelReturns(text)
    \/ \E e \in Errors : ModelRaises(e)
    \/ \E f \in Features : \E text \in (IF f = "summarize" THEN NotesTexts ELSE ShortTexts) :
          TypeText(f, text)
    \/ \E file \in Files \cup {NoFile} : Upload(file)
    \/ \E f \in Features : \E out \in CopyEdits : EditCopy(f, out)
    \/ \E f \in Features : \E cull \in BOOLEAN : Clear(f, cull)

Spec == Init /\ [][Next]_vars

\* ------------------------------------------------------------------ claims
Pressed(button) == last.op = "press" /\ last.target = button
Output(f) == session_state[OutputSlot(f)]
Input(f) == session_state[InputSlot(f)]

\* the slots of the features other than f are as they were before the
\* latest interaction
OthersUntouched(f) ==
    \A g \in Features \ {f} :
        /\ Input(g) = last.before[InputSlot(g)]
        /\ Output(g) = last.before[OutputSlot(g)]

\* the messages of the latest run: on the page, or held back by the call
RunMessages ==
    IF pending = {} THEN screen.messages ELSE (CHOOSE r \in pending : TRUE).messages

HasMessage(level, text) ==
    \E i \in 1..Len(RunMessages) :
        RunMessages[i].level = level /\ RunMessages[i].text = text

NoCallMade == pending = {} /\ last.sent = {} /\ n_calls = last.calls

\* the press had no file to read (every button but Summarize ignores files)
NoFileRead == last.target = "Summarize Content" => last.file = NoFile

EmptyInputWarning(button) ==
    CASE button = "Explain Concept" -> "Please enter a concept to explain."
      [] button = "Summarize Content" -> "Please paste notes or upload a PDF document to summarize."
      [] button = "Generate Quiz" -> "Please enter a topic for the quiz."
      [] button = "Generate Flashcards" -> "Please enter a topic for flashcards."

\* C1, as stated: a press with an empty or whitespace-only input (no file
\* uploaded) calls no model, shows one warning and leaves the feature's
\* output as it was.
C1_BlankInputOnlyWarns ==
    \A button \in Buttons :
        (Pressed(button) /\ NoFileRead /\ Strip(last.input) = <<>>) =>
            /\ NoCallMade
            /\ Len(screen.messages) = 1 /\ screen.messages[1].level = "warning"
            /\ Output(FeatureOf(button)) = last.before[OutputSlot(FeatureOf(button))]

\* C1, amended: a press with an empty (zero-length) input and no file
\* uploaded calls no model, shows the button's warning as the only message
\* and empties the feature's output slot (the page shows the placeholder);
\* every other slot is as before.  A whitespace-only input is not rejected:
\* it is saved and sent to the model like any other text.
C1_EmptyInputWarnsAndClearsOutput ==
    \A button \in Buttons :
        LET f == FeatureOf(button)
        IN /\ (Pressed(button) /\ NoFileRead /\ last.input = <<>>) =>
                /\ NoCallMade
                /\ screen.messages = <<Msg("warning", EmptyInputWarning(button), <<>>, 0)>>
                /\ Output(f) = EmptyOut
                /\ screen[f] = Placeholder
                /\ Input(f) = last.before[InputSlot(f)]
                /\ OthersUntouched(f)
           /\ (Pressed(button) /\ NoFileRead /\ last.input # <<>>
                 /\ Strip(last.input) = <<>>) =>
                /\ n_calls = last.calls + 1
                /\ \A p \in last.sent : p.payload = last.input
                /\ last.sent # {}
                /\ Input(f) = last.input

\* Explain was pressed with an empty input over an explanation that was
\* displayed
C1_Witness ==
    /\ Pressed("Explain Concept")
    /\ last.input = <<>>
    /\ Truthy(last.before.explain_output)
    /\ session_state.explain_output = EmptyOut

\* C2: Clear of a feature empties the feature's input and output slots and
\* leaves the input and output slots of the other two features unchanged.
C2_ClearResetsOwnSlotsOnly ==
    \A f \in Features :
        (last.op = "clear" /\ last.target = f) =>
            /\ Input(f) = <<>>
            /\ Output(f) = EmptyOut
            /\ OthersUntouched(f)

\* Clear of a feature with a saved input and a displayed output, while
\* another feature has something in a slot
C2_Witness ==
    /\ last.op = "clear"
    /\ last.before[InputSlot(last.target)] # <<>>
    /\ Truthy(last.before[OutputSlot(last.target)])
    /\ \E g \in Features \ {last.target} : Input(g) # <<>> \/ Truthy(Output(g))

\* the content Summarize works on: the typed notes, or the document's text
SummarizedContent ==
    IF last.file = NoFile THEN last.input ELSE extract_text_from_pdf(last.file).value

SummarizeSent ==
    /\ Pressed("Summarize Content")
    /\ last.file = NoFile \/ ~last.file.corrupt
    /\ Strip(SummarizedContent) # <<>> \/ (last.file = NoFile /\ last.input # <<>>)

TruncationWarned ==
    \E i \in 1..Len(RunMessages) :
        /\ RunMessages[i].level = "warning"
        /\ RunMessages[i].length = TextLen(SummarizedContent)
        /\ RunMessages[i].length > 0

\* C3: Summarize with non-empty content sends the first 50,000 characters
\* and warns when the content is longer than 50,000 characters, and sends
\* the whole content without a truncation warning otherwise (exactly 50,000
\* characters included).
C3_TruncatesAboveMaxChars ==
    SummarizeSent =>
        /\ Cardinality(last.sent) = 1
        /\ \A p \in last.sent :
            IF TextLen(SummarizedContent) > 50000
            THEN /\ TextLen(p.payload) = 50000
                 /\ \A i \in {1, 49999, 50000} :
                        CharAt(p.payload, i) = CharAt(SummarizedContent, i)
                 /\ CharAt(p.payload, 50001) = ""
                 /\ TruncationWarned
            ELSE /\ p.payload = SummarizedContent
                 /\ ~TruncationWarned

\* notes of 50,001 characters were summarized
C3_Witness ==
    /\ SummarizeSent
    /\ TextLen(SummarizedContent) = 50001
    /\ last.outcome = "ok"

\* the uploaded document cannot be parsed, or has no text but whitespace
Unreadable(file) ==
    /\ file # NoFile
    /\ file.corrupt \/ Strip(PagesText(file.pages)) = <<>>

\* C4: Summarize with an uploaded document that cannot be parsed or yields
\* no text calls no model and reports the failure.
C4_UnreadablePdfAborts ==
    (Pressed("Summarize Content") /\ Unreadable(last.file)) =>
        /\ NoCallMade
        /\ last.outcome = "rejected"
        /\ IF last.file.corrupt
           THEN \E i \in 1..Len(screen.messages) :
                    /\ screen.messages[i].level = "error"
                    /\ screen.messages[i].text = "Error reading PDF: "
                    /\ screen.messages[i].detail = PdfError
           ELSE \E i \in 1..Len(screen.messages) :
                    /\ screen.messages[i].level = "warning"
                    /\ screen.messages[i].text =
                        "Could not extract readable text from the PDF. Please try pasting notes directly."

\* a document with no text was summarized while notes were typed
C4_Witness ==
    /\ Pressed("Summarize Content")
    /\ last.file = ScannedPdf
    /\ last.input # <<>>

\* C5: when the model call of a press fails, the error's message is stored
\* (behind the label "Error: ") as that feature's output, whatever the
\* output was before; the slots of the other two features are unchanged and
\* the run completes: the page shows every feature's input and output.
C5_FailureIsStoredInOwnOutput ==
    \A button \in Buttons :
        (Pressed(button) /\ last.outcome = "error") =>
            LET f == FeatureOf(button)
            IN /\ Output(f).body = last.response
               /\ Output(f).prefix = "Error: "
               /\ screen[f].shown /\ screen[f].full_output = Output(f)
               /\ OthersUntouched(f)
               /\ pending = {}
               /\ \A g \in Features :
                    /\ widgets[InputKey(g)].present
                    /\ screen[g].shown = Truthy(Output(g))
                    /\ screen[g].shown => screen[g].full_output = Output(g)

\* a call failed over an output that a previous call had produced
C5_Witness ==
    /\ last.op = "press"
    /\ last.outcome = "error"
    /\ Truthy(last.before[OutputSlot(FeatureOf(last.target))])
    /\ last.before[OutputSlot(FeatureOf(last.target))].prefix = ""

\* the required input of the press is empty
EmptyRequiredInput == last.op = "press" /\ NoFileRead /\ last.input = <<>>

\* C6, as stated: a press with an empty required input leaves a warning
\* message in the feature's output slot and calls no model.
C6_WarningStoredInOutput ==
    EmptyRequiredInput =>
        /\ Truthy(Output(FeatureOf(last.target)))
        /\ NoCallMade

\* C6, amended: a press with an empty required input sets the feature's
\* output slot to the empty string, shows the warning as a message of that
\* run only (it is not stored in the slot) and calls no model.
C6_OutputEmptiedAndWarningShown ==
    EmptyRequiredInput =>
        /\ Output(FeatureOf(last.target)) = EmptyOut
        /\ HasMessage("warning", EmptyInputWarning(last.target))
        /\ \A i \in 1..Len(screen.messages) : screen.messages[i].level = "warning"
        /\ NoCallMade

\* Summarize was pressed with nothing typed and nothing uploaded, over a
\* summary that was displayed
C6_Witness ==
    /\ Pressed("Summarize Content")
    /\ EmptyRequiredInput
    /\ Truthy(last.before.summarize_output)

\* C7: after Clear of a feature the feature's input widget shows an empty
\* text on the next render, whatever the user had typed into it.
C7_ClearEmptiesInputWidget ==
    \A f \in Features :
        (last.op = "clear" /\ last.target = f) => widgets[InputKey(f)].value = <<>>

\* C8: Explain with a non-empty input C sends exactly the explain template
\* followed by C; when the model returns T the explain output slot is T; and
\* whenever the output is rendered, the copy field and the full view both
\* show the output slot.
C8_ExplainEndToEnd ==
    /\ (Pressed("Explain Concept") /\ last.input # <<>>) =>
            last.sent = {Prompt("Explain the following concept in simple terms for a student, focusing on clarity and easy understanding: ",
                                last.input, "")}
    /\ (Pressed("Explain Concept") /\ last.outcome = "ok") =>
            session_state.explain_output = FStr("", last.response)
    /\ \A f \in Features :
            (pending = {} /\ Truthy(Output(f))) =>
                /\ screen[f].shown
                /\ screen[f].copy_area = Output(f)
                /\ screen[f].full_output = Output(f)

RequestsOf(f) == {r \in pending : FeatureOf(r.button) = f}

\* C9: at most one request is outstanding per feature, a press makes at
\* most one call, a failed call is not sent again: there are never more
\* calls than presses and the number of calls grows by one, in a press.
C9_OneCallPerPress ==
    /\ [](/\ \A f \in Features : Cardinality(RequestsOf(f)) <= 1
          /\ n_calls <= n_presses
          /\ Cardinality(last.sent) <= 1
          /\ last.outcome = "error" => pending = {} /\ n_calls = last.calls + 1)
    /\ [][n_calls' # n_calls =>
            /\ n_calls' = n_calls + 1
            /\ n_presses' = n_presses + 1
            /\ pending = {}]_vars

\* a call failed, the button was pressed again and the new call failed too
C9_Witness ==
    /\ last.outcome = "error"
    /\ n_calls = 2
    /\ n_presses = 2
    /\ pending = {}

\* C10: Summarize with a file uploaded never saves the typed notes into
\* summarize_input and sends nothing but the document's text (its first
\* 50,000 characters), nothing at all when the document is unreadable; the
\* notes are saved by an action button only when no file is uploaded.
C10_FileTakesPrecedence ==
    /\ (Pressed("Summarize Content") /\ last.file # NoFile) =>
            /\ session_state.summarize_input = last.before.summarize_input
            /\ \A p \in last.sent :
                    /\ ~Unreadable(last.file)
                    /\ p.payload = Slice(PagesText(last.file.pages), 50000)
            /\ Unreadable(last.file) => NoCallMade
    /\ (last.op = "press" /\ session_state.summarize_input # last.before.summarize_input) =>
            /\ Pressed("Summarize Content")
            /\ last.file = NoFile
            /\ session_state.summarize_input = last.input

\* a readable document was summarized while other notes were typed
C10_Witness ==
    /\ Pressed("Summarize Content")
    /\ last.file = ExactPdf
    /\ last.input = OverNotes
    /\ last.outcome = "ok"
    /\ session_state.summarize_input = <<>>

====
